---- MODULE Spec2Model ----
(***************************************************************************)
(* A model of j2lint/linter/rule.py: the Rule base class.                  *)
(*                                                                         *)
(*   - __init_subclass__ : validation of a rule class when it is defined   *)
(*   - __init__          : construction of a rule instance                 *)
(*   - to_json           : the JSON description of a rule                  *)
(*   - checkrule         : application of one rule to one file             *)
(*                                                                         *)
(* Python str values are sequences of one-character strings, so that       *)
(* split, lstrip, startswith and the JSON encoding work on characters.     *)
(***************************************************************************)
EXTENDS Integers, Sequences, FiniteSets, TLC

VARIABLES
    cls,        \* the rule class most recently defined with success, or NoClass
    lastDef,    \* the last class statement executed and how it ended
    nDefs,      \* number of class statements executed so far
    rule,       \* the rule instance (self), or NoRule
    json,       \* the last value returned by to_json, as characters
    decoded,    \* the caller's json.loads of that value
    inv         \* the checkrule invocations: locals, position, calls made

vars == <<cls, lastDef, nDefs, rule, json, decoded, inv>>

----------------------------------------------------------------------------
(* Bounds *)

MaxTextLen == 3      \* length of the generated file texts
ConcTextLen == 1     \* length of the file texts of concurrent invocations
MaxStrLen == 2       \* length of the generated origin strings
MaxDefs == 2         \* class statements executed in one run

----------------------------------------------------------------------------
(* Strings *)

RECURSIVE SeqsUpTo(_, _)
SeqsUpTo(S, n) ==
    IF n = 0 THEN {<<>>}
    ELSE LET R == SeqsUpTo(S, n - 1)
         IN  R \cup {Append(s, c) : s \in {r \in R : Len(r) = n - 1}, c \in S}

\* str.isspace() characters that the model's texts can hold
Whitespace == {" ", "\t", "\r", "\n", "\f"}

\* str.lstrip(): drop the leading whitespace
RECURSIVE lstrip(_)
lstrip(s) ==
    IF s # <<>> /\ Head(s) \in Whitespace THEN lstrip(Tail(s)) ELSE s

\* str.startswith(prefix)
startswith(s, prefix) ==
    /\ Len(s) >= Len(prefix)
    /\ SubSeq(s, 1, Len(prefix)) = prefix

\* the `in` operator on two str values: pat is a substring of s
Contains(s, pat) ==
    \E i \in 1..(Len(s) - Len(pat) + 1) : SubSeq(s, i, i + Len(pat) - 1) = pat

\* text.split("\n"): the pieces between line feeds, k+1 pieces for k line feeds
RECURSIVE split(_)
split(text) ==
    IF \A i \in 1..Len(text) : text[i] # "\n" THEN <<text>>
    ELSE LET i == CHOOSE i \in 1..Len(text) :
                      text[i] = "\n" /\ \A j \in 1..(i - 1) : text[j] # "\n"
         IN  <<SubSeq(text, 1, i - 1)>> \o split(SubSeq(text, i + 1, Len(text)))

----------------------------------------------------------------------------
(* Inputs *)

Alphabet == {"T", "#", " ", "\n"}

TextA == <<"a", "\n", "#", "b", "\n", "c">>
TextTodo == <<"o", "k", "\n", "T", "O", "D", "O", " ", "f", "i", "x", "\n", "o", "k">>
ExampleTexts == {TextA, TextTodo}

Texts == SeqsUpTo(Alphabet, MaxTextLen) \cup ExampleTexts
ConcTexts == SeqsUpTo(Alphabet, ConcTextLen)

CheckablePaths == {"t.j2"}
Paths == CheckablePaths \cup {"t.txt"}
Files == [path : Paths]

\* j2lint.utils.is_valid_file_type: a pure predicate on the path
is_valid_file_type(path) == path \in CheckablePaths

----------------------------------------------------------------------------
(* Rule instances *)

\* the object None; no str value, since a str holds one-character strings
None == <<"None">>

NoRule == [rule_id |-> <<>>, none |-> TRUE]

\* What the concrete subclass wrote in checktext and in checkline.
\*   textImpl "match": one finding per line of the text that holds the pattern
\*   lineImpl "match": one finding if the line holds the pattern
\*   lineImpl "twice": the same finding twice if the line holds the pattern
\*   lineImpl "IndexError": like "match", but reads line[0] first
\*   "NotImplementedError": the strategy is not implemented
\*   "ValueError": the method fails
TextImpls == {"match", "NotImplementedError", "ValueError"}
LineImpls == {"match", "twice", "NotImplementedError", "IndexError"}
Patterns == {<<"T">>, <<"T", "O", "D", "O">>}
Impls == [textImpl : TextImpls, lineImpl : LineImpls, pattern : Patterns]

\* Rule.__init__ on a class with the attributes attrs
init(attrs, impl, ignore, warn, origin) ==
    [rule_id |-> attrs.rule_id,
     short_description |-> attrs.short_description,
     description |-> attrs.description,
     severity |-> attrs.severity,
     impl |-> impl,
     ignore |-> ignore,
     warn |-> IF warn # None THEN warn ELSE <<>>,
     origin |-> origin]

\* LinterError(line_no, line, filename, rule)
LinterError(line_no, line, filename, self) ==
    [line_no |-> line_no, line |-> line, filename |-> filename, rule_id |-> self.rule_id]

Return(findings) == [exc |-> "none", findings |-> findings]
Raise(exc) == [exc |-> exc, findings |-> <<>>]

RECURSIVE TextFindings(_, _, _, _)
TextFindings(self, filename, lines, n) ==
    IF n = 0 THEN <<>>
    ELSE TextFindings(self, filename, lines, n - 1) \o
         (IF Contains(lines[n], self.impl.pattern)
          THEN <<LinterError(n, lines[n], filename, self)>>
          ELSE <<>>)

\* checktext as a concrete rule overrides it
checktext(self, filename, text) ==
    CASE self.impl.textImpl = "NotImplementedError" -> Raise("NotImplementedError")
      [] self.impl.textImpl = "ValueError" -> Raise("ValueError")
      [] OTHER -> Return(TextFindings(self, filename, split(text), Len(split(text))))

\* checkline as a concrete rule overrides it
checkline(self, filename, line, line_no) ==
    LET hit == IF Contains(line, self.impl.pattern)
               THEN <<LinterError(line_no, line, filename, self)>>
               ELSE <<>>
    IN  CASE self.impl.lineImpl = "NotImplementedError" -> Raise("NotImplementedError")
          [] self.impl.lineImpl = "IndexError" ->
                IF line = <<>> THEN Raise("IndexError") ELSE Return(hit)
          [] self.impl.lineImpl = "twice" -> Return(hit \o hit)
          [] OTHER -> Return(hit)

----------------------------------------------------------------------------
(* checkrule *)

Procs == {1, 2}

NoFile == [path |-> ""]

\* an invocation that has not been made yet
Idle ==
    [pc |-> "idle", file |-> NoFile, text |-> <<>>, errors |-> <<>>,
     lines |-> <<>>, index |-> 0, calls |-> <<>>,
     returned |-> FALSE, result |-> <<>>, exc |-> "none"]

TextCall(filename, text, r) ==
    [method |-> "checktext", filename |-> filename, arg |-> text, line_no |-> 0,
     exc |-> r.exc, findings |-> r.findings]

LineCall(filename, line, line_no, r) ==
    [method |-> "checkline", filename |-> filename, arg |-> line, line_no |-> line_no,
     exc |-> r.exc, findings |-> r.findings]

\* `return errors`
ReturnErrors(iv) ==
    [iv EXCEPT !.pc = "returned", !.returned = TRUE, !.result = iv.errors]

\* an exception leaves checkrule
Propagate(iv, exc) ==
    [iv EXCEPT !.pc = "raised", !.exc = exc]

\* is_comment without the lstrip
is_comment_unstripped(line) == startswith(line, <<"#">>)

\* the comment test of the loop: line.lstrip().startswith("#")
is_comment(line) == startswith(lstrip(line), <<"#">>)

\* Enter without the file-type gate
Enter_ungated(self, file, text) ==
    [Idle EXCEPT !.file = file, !.text = text, !.errors = <<>>, !.pc = "checktext"]

\* Enter that yields nothing for a rule with ignore set
Enter_ignoring(self, file, text) ==
    LET iv == [Idle EXCEPT !.file = file, !.text = text, !.errors = <<>>]
    IN  IF ~is_valid_file_type(file.path) \/ self.ignore
        THEN ReturnErrors(iv)
        ELSE [iv EXCEPT !.pc = "checktext"]

\* checkrule up to the file-type gate
Enter(self, file, text) ==
    LET iv == [Idle EXCEPT !.file = file, !.text = text, !.errors = <<>>]
    IN  IF ~is_valid_file_type(file.path)
        THEN ReturnErrors(iv)
        ELSE [iv EXCEPT !.pc = "checktext"]

\* TryCheckText that goes on to the lines after checktext has returned
TryCheckText_merged(self, iv) ==
    LET r == checktext(self, iv.file.path, iv.text)
        c == [iv EXCEPT !.calls = Append(@, TextCall(iv.file.path, iv.text, r))]
    IN  IF r.exc = "none"
        THEN [c EXCEPT !.errors = @ \o r.findings, !.pc = "loop",
                       !.lines = split(iv.text), !.index = 0]
        ELSE IF r.exc = "NotImplementedError"
        THEN [c EXCEPT !.pc = "loop", !.lines = split(iv.text), !.index = 0]
        ELSE Propagate(c, r.exc)

\* TryCheckText with `except Exception`
TryCheckText_catchall(self, iv) ==
    LET r == checktext(self, iv.file.path, iv.text)
        c == [iv EXCEPT !.calls = Append(@, TextCall(iv.file.path, iv.text, r))]
    IN  IF r.exc = "none"
        THEN ReturnErrors([c EXCEPT !.errors = @ \o r.findings])
        ELSE [c EXCEPT !.pc = "loop", !.lines = split(iv.text), !.index = 0]

\* the try block and the choice its except clause makes
TryCheckText(self, iv) ==
    LET r == checktext(self, iv.file.path, iv.text)
        c == [iv EXCEPT !.calls = Append(@, TextCall(iv.file.path, iv.text, r))]
    IN  IF r.exc = "none"
        THEN ReturnErrors([c EXCEPT !.errors = @ \o r.findings])
        ELSE IF r.exc = "NotImplementedError"
        THEN [c EXCEPT !.pc = "loop", !.lines = split(iv.text), !.index = 0]
        ELSE Propagate(c, r.exc)

\* LoopStep with `errors = results` for `errors.extend(results)`
LoopStep_assign(self, iv) ==
    IF iv.index >= Len(iv.lines)
    THEN ReturnErrors(iv)
    ELSE LET line == iv.lines[iv.index + 1]
             r == checkline(self, iv.file.path, line, iv.index + 1)
             c == [iv EXCEPT !.calls =
                       Append(@, LineCall(iv.file.path, line, iv.index + 1, r))]
         IN  IF is_comment(line)
             THEN [iv EXCEPT !.index = @ + 1]
             ELSE IF r.exc = "none"
             THEN [c EXCEPT !.errors = r.findings, !.index = @ + 1]
             ELSE Propagate(c, r.exc)

\* one iteration of `for index, line in enumerate(text.split("\n"))`
LoopStep(self, iv) ==
    IF iv.index >= Len(iv.lines)
    THEN ReturnErrors(iv)
    ELSE LET line == iv.lines[iv.index + 1]
             r == checkline(self, iv.file.path, line, iv.index + 1)
             c == [iv EXCEPT !.calls =
                       Append(@, LineCall(iv.file.path, line, iv.index + 1, r))]
         IN  IF is_comment(line)
             THEN [iv EXCEPT !.index = @ + 1]
             ELSE IF r.exc = "none"
             THEN [c EXCEPT !.errors = @ \o r.findings, !.index = @ + 1]
             ELSE Propagate(c, r.exc)

Call(p, file, text) ==
    /\ rule # NoRule
    /\ inv[p].pc = "idle"
    /\ inv' = [inv EXCEPT ![p] = Enter(rule, file, text)]
    /\ UNCHANGED <<cls, lastDef, nDefs, rule, json, decoded>>

CheckText(p) ==
    /\ inv[p].pc = "checktext"
    /\ inv' = [inv EXCEPT ![p] = TryCheckText(rule, inv[p])]
    /\ UNCHANGED <<cls, lastDef, nDefs, rule, json, decoded>>

CheckLines(p) ==
    /\ inv[p].pc = "loop"
    /\ inv' = [inv EXCEPT ![p] = LoopStep(rule, inv[p])]
    /\ UNCHANGED <<cls, lastDef, nDefs, rule, json, decoded>>

----------------------------------------------------------------------------
(* Rule classes *)

LOW == <<"L", "O", "W">>
MEDIUM == <<"M", "E", "D", "I", "U", "M">>
HIGH == <<"H", "I", "G", "H">>

mandatory_attributes == <<"rule_id", "description", "short_description", "severity">>
Mandatory == {mandatory_attributes[i] : i \in 1..Len(mandatory_attributes)}

\* the values a class body gives to an attribute
RuleIds == {<<"S", "0">>, <<"\"">>}
Descriptions == {<<"s", "y", "n", "t", "a", "x">>}
ShortDescriptions == {<<"s", "-", "e">>}
Severities == {LOW, MEDIUM, HIGH, None, <<"l", "o", "w">>, <<"C", "R", "I", "T", "I", "C", "A", "L">>}

ValuesOf(attr) ==
    CASE attr = "rule_id" -> RuleIds
      [] attr = "description" -> Descriptions
      [] attr = "short_description" -> ShortDescriptions
      [] OTHER -> Severities

\* an attribute the class body does not assign
Absent == <<"absent">>

\* a class body: the mandatory attributes it assigns, with their values
BodyOf(given) ==
    [a \in {m \in Mandatory : given[m] # Absent} |-> given[a]]

Bodies ==
    {BodyOf([rule_id |-> r, description |-> d, short_description |-> s, severity |-> v]) :
        r \in RuleIds \cup {Absent}, d \in Descriptions \cup {Absent},
        s \in ShortDescriptions \cup {Absent}, v \in Severities \cup {Absent}}

\* class Rule itself assigns none of them (lines 25 to 28 are annotations)
RuleNs == [a \in {} |-> None]

NoClass == [none |-> TRUE]
NoDef == [exc |-> "none", attr |-> "", none |-> TRUE]

\* the attributes of `class X(base): body`, as getattr and hasattr see them
Namespace(base, body) ==
    [a \in DOMAIN base \cup DOMAIN body |-> IF a \in DOMAIN body THEN body[a] ELSE base[a]]

hasattr(ns, attr) == attr \in DOMAIN ns

\* init_subclass reading a missing severity as None
init_subclass_getattr(ns) ==
    LET missing == {i \in 1..(Len(mandatory_attributes) - 1) :
                        ~hasattr(ns, mandatory_attributes[i])}
    IN  IF missing # {}
        THEN [exc |-> "NotImplementedError",
              attr |-> mandatory_attributes[CHOOSE i \in missing : \A j \in missing : i <= j]]
        ELSE IF ~hasattr(ns, "severity") \/ ns.severity \notin {LOW, MEDIUM, HIGH}
        THEN [exc |-> "JinjaLinterError", attr |-> "severity"]
        ELSE [exc |-> "none", attr |-> ""]

\* init_subclass that tests the severity only when it is set
init_subclass_falsy(ns) ==
    LET missing == {i \in 1..Len(mandatory_attributes) :
                        ~hasattr(ns, mandatory_attributes[i])}
    IN  IF missing # {}
        THEN [exc |-> "NotImplementedError",
              attr |-> mandatory_attributes[CHOOSE i \in missing : \A j \in missing : i <= j]]
        ELSE IF ns.severity # None /\ ns.severity \notin {LOW, MEDIUM, HIGH}
        THEN [exc |-> "JinjaLinterError", attr |-> "severity"]
        ELSE [exc |-> "none", attr |-> ""]

\* Rule.__init_subclass__ on the class with namespace ns: the exception it
\* raises ("none" if it returns) and the attribute the message names
init_subclass(ns) ==
    LET missing == {i \in 1..Len(mandatory_attributes) :
                        ~hasattr(ns, mandatory_attributes[i])}
    IN  IF missing # {}
        THEN [exc |-> "NotImplementedError",
              attr |-> mandatory_attributes[CHOOSE i \in missing : \A j \in missing : i <= j]]
        ELSE IF ns.severity \notin {LOW, MEDIUM, HIGH}
        THEN [exc |-> "JinjaLinterError", attr |-> "severity"]
        ELSE [exc |-> "none", attr |-> ""]

\* the statement `class X(base): body`
DefineRule(base, body) ==
    LET ns == Namespace(base, body)
        r == init_subclass(ns)
    IN  /\ rule = NoRule
        /\ nDefs < MaxDefs
        /\ nDefs' = nDefs + 1
        /\ lastDef' = [base |-> base, body |-> body, ns |-> ns, exc |-> r.exc, attr |-> r.attr]
        /\ cls' = IF r.exc = "none" THEN ns ELSE cls
        /\ UNCHANGED <<rule, json, decoded, inv>>

DefaultImpl == [textImpl |-> "NotImplementedError", lineImpl |-> "match", pattern |-> <<"T">>]

BUILT_IN == <<"B", "U", "I", "L", "T", "-", "I", "N">>

\* X(ignore, warn, origin) for the class X that cls holds
Instantiate(ignore, warn, origin) ==
    /\ cls # NoClass
    /\ rule = NoRule
    /\ rule' = init(cls, DefaultImpl, ignore, warn, origin)
    /\ UNCHANGED <<cls, lastDef, nDefs, json, decoded, inv>>

----------------------------------------------------------------------------
(* to_json *)

\* the escapes of json.dumps for the characters the model's strings hold
escape_char(c) ==
    CASE c = "\"" -> <<"\\", "\"">>
      [] c = "\\" -> <<"\\", "\\">>
      [] c = "\n" -> <<"\\", "n">>
      [] c = "\t" -> <<"\\", "t">>
      [] c = "\r" -> <<"\\", "r">>
      [] OTHER -> <<c>>

RECURSIVE escape(_)
escape(s) == IF s = <<>> THEN <<>> ELSE escape_char(Head(s)) \o escape(Tail(s))

\* json.dumps of a str
dumps_str(s) == <<"\"">> \o escape(s) \o <<"\"">>

K_rule_id == <<"r", "u", "l", "e", "_", "i", "d">>
K_short_description == <<"s", "h", "o", "r", "t", "_", "d", "e", "s", "c", "r", "i", "p", "t", "i", "o", "n">>
K_description == <<"d", "e", "s", "c", "r", "i", "p", "t", "i", "o", "n">>
K_severity == <<"s", "e", "v", "e", "r", "i", "t", "y">>
K_origin == <<"o", "r", "i", "g", "i", "n">>

\* describe with the two descriptions in each other's place
describe_swapped(self) ==
    << <<K_rule_id, self.rule_id>>,
       <<K_short_description, self.description>>,
       <<K_description, self.short_description>>,
       <<K_severity, self.severity>>,
       <<K_origin, self.origin>> >>

\* the dict literal of to_json, in insertion order
describe(self) ==
    << <<K_rule_id, self.rule_id>>,
       <<K_short_description, self.short_description>>,
       <<K_description, self.description>>,
       <<K_severity, self.severity>>,
       <<K_origin, self.origin>> >>

\* json.dumps of a dict of str to str, with the default separators
RECURSIVE dumps_items(_)
dumps_items(items) ==
    IF items = <<>> THEN <<>>
    ELSE dumps_str(Head(items)[1]) \o <<":", " ">> \o dumps_str(Head(items)[2])
         \o (IF Tail(items) = <<>> THEN <<>> ELSE <<",", " ">>)
         \o dumps_items(Tail(items))

dumps(items) == <<"{">> \o dumps_items(items) \o <<"}">>

\* Rule.to_json
to_json(self) == dumps(describe(self))

NotDecoded == [done |-> FALSE, ok |-> FALSE, items |-> <<>>]

ToJson ==
    /\ rule # NoRule
    /\ json' = to_json(rule)
    /\ decoded' = NotDecoded
    /\ UNCHANGED <<cls, lastDef, nDefs, rule, inv>>

----------------------------------------------------------------------------
(* The caller's json.loads of a rule's description *)

JsonWs == {" ", "\t", "\n", "\r"}
Escapable == {"\"", "\\", "/", "n", "t", "r"}
ControlChars == {"\n", "\t", "\r", "\f"}

unescape_char(c) ==
    CASE c = "n" -> "\n"
      [] c = "t" -> "\t"
      [] c = "r" -> "\r"
      [] OTHER -> c

RECURSIVE skip_ws(_, _)
skip_ws(s, i) == IF i <= Len(s) /\ s[i] \in JsonWs THEN skip_ws(s, i + 1) ELSE i

NoString == [ok |-> FALSE, val |-> <<>>, next |-> 0]

\* the string whose opening quote is at i - 1: its value and the place after it
RECURSIVE scan_string(_, _)
scan_string(s, i) ==
    IF i > Len(s) \/ s[i] \in ControlChars THEN NoString
    ELSE IF s[i] = "\"" THEN [ok |-> TRUE, val |-> <<>>, next |-> i + 1]
    ELSE IF s[i] = "\\"
    THEN IF i + 1 > Len(s) \/ s[i + 1] \notin Escapable THEN NoString
         ELSE LET r == scan_string(s, i + 2)
              IN  [r EXCEPT !.val = <<unescape_char(s[i + 1])>> \o @]
    ELSE LET r == scan_string(s, i + 1)
         IN  [r EXCEPT !.val = <<s[i]>> \o @]

NoObject == [done |-> TRUE, ok |-> FALSE, items |-> <<>>]

\* the members of an object of str to str, from place i to the closing brace
RECURSIVE parse_members(_, _)
parse_members(s, i) ==
    LET i1 == skip_ws(s, i)
        k == scan_string(s, i1 + 1)
        i2 == skip_ws(s, k.next)
        i3 == skip_ws(s, i2 + 1)
        v == scan_string(s, i3 + 1)
        i4 == skip_ws(s, v.next)
    IN  IF i1 > Len(s) \/ s[i1] # "\"" THEN NoObject
        ELSE IF ~k.ok \/ i2 > Len(s) \/ s[i2] # ":" THEN NoObject
        ELSE IF i3 > Len(s) \/ s[i3] # "\"" THEN NoObject
        ELSE IF ~v.ok \/ i4 > Len(s) THEN NoObject
        ELSE IF s[i4] = "}"
        THEN IF skip_ws(s, i4 + 1) > Len(s)
             THEN [done |-> TRUE, ok |-> TRUE, items |-> << <<k.val, v.val>> >>]
             ELSE NoObject
        ELSE IF s[i4] = ","
        THEN LET r == parse_members(s, i4 + 1)
             IN  IF r.ok THEN [r EXCEPT !.items = << <<k.val, v.val>> >> \o @] ELSE NoObject
        ELSE NoObject

\* json.loads of the text of an object of str to str: the items in order
loads(s) ==
    IF s # <<>> /\ s[1] = "{" THEN parse_members(s, 2) ELSE NoObject

Loads ==
    /\ json # <<>>
    /\ ~decoded.done
    /\ decoded' = loads(json)
    /\ UNCHANGED <<cls, lastDef, nDefs, rule, json, inv>>

----------------------------------------------------------------------------
(* Specifications *)

S0Class ==
    [rule_id |-> <<"S", "0">>, description |-> <<"s", "y", "n", "t", "a", "x">>,
     short_description |-> <<"s", "-", "e">>, severity |-> HIGH]

Origins == SeqsUpTo({"n", "\"", "\\", "\n"}, MaxStrLen) \cup {BUILT_IN}

\* Definition of rule classes, construction and description of a rule
InitDef ==
    /\ cls = NoClass
    /\ lastDef = NoDef
    /\ nDefs = 0
    /\ rule = NoRule
    /\ json = <<>>
    /\ decoded = NotDecoded
    /\ inv = [p \in Procs |-> Idle]

NextDef ==
    \/ \E base \in {RuleNs} \cup ({cls} \ {NoClass}), body \in Bodies : DefineRule(base, body)
    \/ \E origin \in Origins : Instantiate(FALSE, None, origin)
    \/ ToJson
    \/ Loads

SpecDef == InitDef /\ [][NextDef]_vars

\* One rule applied to one file
Init ==
    /\ cls = S0Class
    /\ lastDef = NoDef
    /\ nDefs = 0
    /\ rule \in {init(S0Class, impl, ignore, None, BUILT_IN) :
                    impl \in Impls, ignore \in BOOLEAN}
    /\ json = <<>>
    /\ decoded = NotDecoded
    /\ inv = [p \in Procs |-> Idle]

Next ==
    \/ \E file \in Files, text \in Texts : Call(1, file, text)
    \/ CheckText(1)
    \/ CheckLines(1)

Spec == Init /\ [][Next]_vars

\* Two applications of one rule instance, interleaved
NextConc ==
    \/ \E p \in Procs, file \in Files, text \in ConcTexts : Call(p, file, text)
    \/ \E p \in Procs : CheckText(p)
    \/ \E p \in Procs : CheckLines(p)

SpecConc == Init /\ [][NextConc]_vars

----------------------------------------------------------------------------
(* What the claims speak of, stated without the operators of checkrule *)

Checkable(iv) == iv.file.path \in CheckablePaths
Started(iv) == iv.pc # "idle"
Finished(iv) == iv.pc \in {"returned", "raised"}

\* the places of the line feeds of a text, and its lines by number
LFs(text) == {i \in 1..Len(text) : text[i] = "\n"}
NumLines(text) == Cardinality(LFs(text)) + 1
NthLF(text, k) == CHOOSE i \in LFs(text) : Cardinality({j \in LFs(text) : j <= i}) = k
LineOf(text, k) ==
    SubSeq(text,
           IF k = 1 THEN 1 ELSE NthLF(text, k - 1) + 1,
           IF k = NumLines(text) THEN Len(text) ELSE NthLF(text, k) - 1)

\* the first character of the line that is no whitespace is '#'
FirstIsHash(line) ==
    \E i \in 1..Len(line) : line[i] = "#" /\ \A j \in 1..(i - 1) : line[j] \in Whitespace

\* the checkline calls a text is due: line and 1-based number, in line order
ExpectedCalls(text) ==
    SelectSeq([k \in 1..NumLines(text) |-> [arg |-> LineOf(text, k), line_no |-> k]],
              LAMBDA c : ~FirstIsHash(c.arg))

\* the calls of one method an invocation has made, as (argument, line number)
CallsOf(iv, method) ==
    LET made == SelectSeq(iv.calls, LAMBDA c : c.method = method)
    IN  [i \in 1..Len(made) |-> [arg |-> made[i].arg, line_no |-> made[i].line_no]]

IsPrefix(s, t) == Len(s) <= Len(t) /\ s = SubSeq(t, 1, Len(s))

RECURSIVE Flatten(_)
Flatten(ss) == IF ss = <<>> THEN <<>> ELSE Head(ss) \o Flatten(Tail(ss))

\* the findings the calls of an invocation returned, call after call
Returned(iv, method) ==
    LET made == SelectSeq(iv.calls, LAMBDA c : c.method = method)
    IN  Flatten([i \in 1..Len(made) |-> made[i].findings])

\* the invocation took the line-based path: checktext signalled not-applicable
LinePath(iv) ==
    /\ iv.pc \in {"loop", "returned", "raised"}
    /\ Checkable(iv)
    /\ iv.calls # <<>>
    /\ iv.calls[1].exc = "NotImplementedError"

----------------------------------------------------------------------------
(* Claims about checkrule, under Spec *)

\* C3: when the file's path is not of a checkable type, checkrule returns an
\* empty list, raises nothing, and has called neither checktext nor checkline.
C3_UncheckableReturnsEmpty ==
    \A p \in Procs :
        (Started(inv[p]) /\ ~Checkable(inv[p])) =>
            /\ inv[p].pc = "returned"
            /\ inv[p].returned
            /\ inv[p].result = <<>>
            /\ inv[p].exc = "none"
            /\ inv[p].calls = <<>>

\* C3 witness: a text rule that would report "T" was applied to a file that is
\* not checkable, and checkrule has returned.
C3_Witness ==
    /\ inv[1].pc = "returned"
    /\ inv[1].file.path = "t.txt"
    /\ inv[1].text = <<"T">>
    /\ rule.impl.textImpl = "match"
    /\ rule.impl.pattern = <<"T">>

\* C4: for a checkable file the first call checkrule makes is checktext, with
\* the path and the whole text, it is made once, and every later call is a
\* checkline; when that checktext returns findings, checkrule returns exactly
\* them, in their order, and checkline is never called, also on texts with
\* lines that start with '#'. Findings of both strategies never meet.
C4_TextFirstAndExclusive ==
    \A p \in Procs :
        LET iv == inv[p]
        IN  /\ (iv.pc = "checktext") => iv.calls = <<>>
            /\ (iv.pc \in {"loop", "returned", "raised"} /\ Checkable(iv)) =>
                /\ Len(CallsOf(iv, "checktext")) = 1
                /\ iv.calls[1].method = "checktext"
                /\ iv.calls[1].arg = iv.text
                /\ iv.calls[1].filename = iv.file.path
                /\ (iv.calls[1].exc = "none") =>
                    /\ iv.pc = "returned"
                    /\ iv.returned
                    /\ iv.result = iv.calls[1].findings
                    /\ Len(iv.calls) = 1
                /\ (Returned(iv, "checkline") # <<>>) => iv.calls[1].findings = <<>>

\* C4 witness: a text rule has reported the line "#T", which the line-based
\* path would have skipped, and checkline was not called.
C4_Witness ==
    /\ inv[1].pc = "returned"
    /\ inv[1].text = <<"#", "T">>
    /\ Len(inv[1].calls) = 1
    /\ inv[1].result = <<LinterError(1, <<"#", "T">>, "t.j2", rule)>>

\* C5: on the line-based path the text is cut at its line feeds into k+1 lines
\* for k line feeds, and checkline is called once for each line whose first
\* non-whitespace character is not '#', in line order, with the line as it is
\* and its 1-based number in the whole text; the other lines are never passed.
\* The calls made so far are always a prefix of those due, and all of them
\* have been made when checkrule returns.
C5_LineCalls ==
    \A p \in Procs :
        LET iv == inv[p]
        IN  LinePath(iv) =>
                /\ IsPrefix(CallsOf(iv, "checkline"), ExpectedCalls(iv.text))
                /\ \A i \in 2..Len(iv.calls) : iv.calls[i].filename = iv.file.path
                /\ iv.pc = "returned" => CallsOf(iv, "checkline") = ExpectedCalls(iv.text)
                /\ (iv.pc = "returned" /\ iv.text = TextA) =>
                        CallsOf(iv, "checkline") =
                            <<[arg |-> <<"a">>, line_no |-> 1], [arg |-> <<"c">>, line_no |-> 3]>>

\* C5 witness: a line rule was applied to "a\n#b\nc" and checkrule returned
\* after two checkline calls.
C5_Witness ==
    /\ inv[1].pc = "returned"
    /\ LinePath(inv[1])
    /\ inv[1].text = TextA
    /\ Len(CallsOf(inv[1], "checkline")) = 2

\* C6: for a checkable file and a rule whose checktext and checkline both
\* signal not-applicable, checkrule returns an empty list and does not raise.
C6_NeitherStrategy ==
    \A p \in Procs :
        (/\ Finished(inv[p])
         /\ Checkable(inv[p])
         /\ rule.impl.textImpl = "NotImplementedError"
         /\ rule.impl.lineImpl = "NotImplementedError") =>
            /\ inv[p].pc = "returned"
            /\ inv[p].result = <<>>

\* C7: an error of checktext or of checkline that is not the not-applicable
\* signal leaves checkrule as it is: it is the last call checkrule makes (no
\* fallback, no retry, no further checkline), checkrule ends raising that
\* same error, and it returns no list.
C7_ErrorsPropagate ==
    \A p \in Procs :
        LET iv == inv[p]
        IN  \A i \in 1..Len(iv.calls) :
                iv.calls[i].exc \notin {"none", "NotImplementedError"} =>
                    /\ i = Len(iv.calls)
                    /\ iv.pc = "raised"
                    /\ iv.exc = iv.calls[i].exc
                    /\ ~iv.returned
                    /\ iv.result = <<>>

\* C7 witness: checkline reported line 1 and failed with IndexError on the
\* empty line 2; checkrule has raised IndexError with a finding collected.
C7_Witness ==
    /\ inv[1].pc = "raised"
    /\ inv[1].exc = "IndexError"
    /\ inv[1].text = <<"T", "\n">>
    /\ Len(inv[1].errors) = 1
    /\ Len(inv[1].calls) = 3

\* C10: on the line-based path the list checkrule returns is the findings of
\* the checkline calls put one after the other in line order: nothing is
\* dropped, added, merged or sorted, and its length is the sum of the lengths.
\* A rule reporting the lines that hold "TODO" returns one finding, for line
\* 2, on "ok\nTODO fix\nok".
C10_Concatenation ==
    \A p \in Procs :
        LET iv == inv[p]
            due == ExpectedCalls(iv.text)
        IN  (LinePath(iv) /\ iv.pc = "returned") =>
                /\ iv.result = Returned(iv, "checkline")
                /\ iv.result =
                       Flatten([i \in 1..Len(due) |->
                                   checkline(rule, iv.file.path, due[i].arg, due[i].line_no).findings])
                /\ (/\ iv.text = TextTodo
                    /\ rule.impl.pattern = <<"T", "O", "D", "O">>
                    /\ rule.impl.lineImpl \in {"match", "IndexError"}) =>
                        iv.result =
                            <<LinterError(2, <<"T", "O", "D", "O", " ", "f", "i", "x">>,
                                          iv.file.path, rule)>>

\* C10 witness: a rule that reports every hit twice was applied to "T\nT";
\* the four findings are returned, the equal ones side by side.
C10_Witness ==
    /\ inv[1].pc = "returned"
    /\ LinePath(inv[1])
    /\ inv[1].text = <<"T", "\n", "T">>
    /\ Len(inv[1].result) = 4
    /\ inv[1].result[1] = inv[1].result[2]
    /\ inv[1].result[3].line_no = 2

----------------------------------------------------------------------------
(* Claims about concurrent invocations, under SpecConc *)

\* the states one invocation passes through when it runs alone
RECURSIVE PathFrom(_, _)
PathFrom(self, iv) ==
    IF Finished(iv) THEN {iv}
    ELSE {iv} \cup PathFrom(self, IF iv.pc = "checktext" THEN TryCheckText(self, iv)
                                                           ELSE LoopStep(self, iv))

Alone(self, file, text) == PathFrom(self, Enter(self, file, text))

\* what the caller gets from a finished invocation
Outcome(iv) == [returned |-> iv.returned, result |-> iv.result, exc |-> iv.exc]

OutcomeAlone(self, file, text) ==
    Outcome(CHOOSE iv \in Alone(self, file, text) : Finished(iv))

\* the same rule with other values of its instance fields
Reconfigured(self) ==
    {[self EXCEPT !.ignore = i, !.warn = w, !.origin = o] :
        i \in BOOLEAN, w \in {<<>>, <<"S1">>}, o \in {BUILT_IN, <<"n">>}}

C9_EachAsAlone ==
    \A p \in Procs :
        Started(inv[p]) =>
            /\ inv[p] \in Alone(rule, inv[p].file, inv[p].text)
            /\ \A r \in Reconfigured(rule) :
                   OutcomeAlone(r, inv[p].file, inv[p].text) =
                       OutcomeAlone(rule, inv[p].file, inv[p].text)

\* C9: no step of checkrule changes the rule instance or its class; under
\* every interleaving of two invocations on one instance each invocation is,
\* at every step, where it would be when run alone, so it returns what it
\* returns alone; and what it returns is the same for every value of ignore,
\* warn and origin.
C9_Independent ==
    /\ []C9_EachAsAlone
    /\ [][rule' = rule /\ cls' = cls]_vars

\* C9 witness: two invocations on one instance with ignore set are both in
\* the middle of their loops, each holding its own finding.
C9_Witness ==
    /\ rule.ignore
    /\ \A p \in Procs :
          /\ inv[p].pc = "loop"
          /\ inv[p].index = 1
          /\ Len(inv[p].errors) = 1
    /\ inv[1].file.path = "t.j2"
    /\ inv[1].text = <<"T">>

----------------------------------------------------------------------------
(* Claims about rule classes and to_json, under SpecDef *)

Defined == lastDef # NoDef
Lacking == Mandatory \ DOMAIN lastDef.ns

C2_SeverityDecides ==
    (Defined /\ Lacking = {}) =>
        /\ lastDef.exc \in {"none", "JinjaLinterError"}
        /\ lastDef.exc = "JinjaLinterError" <=> lastDef.ns.severity \notin {LOW, MEDIUM, HIGH}
        /\ lastDef.exc = "none" => cls = lastDef.ns
        /\ lastDef.exc # "none" => cls # lastDef.ns

\* C2 witness: a class with all four attributes and severity None was refused.
C2_Witness ==
    /\ Defined
    /\ Lacking = {}
    /\ lastDef.ns.severity = None
    /\ lastDef.exc = "JinjaLinterError"

\* C8: the text to_json returns decodes to exactly five items, rule_id,
\* short_description, description, severity, origin in this order, each with
\* the value the rule holds; the severity is one of LOW, MEDIUM, HIGH.
C8_DescriptionRoundTrip ==
    decoded.done =>
        /\ decoded.ok
        /\ decoded.items =
              << <<K_rule_id, rule.rule_id>>,
                 <<K_short_description, rule.short_description>>,
                 <<K_description, rule.description>>,
                 <<K_severity, rule.severity>>,
                 <<K_origin, rule.origin>> >>
        /\ rule.severity \in {LOW, MEDIUM, HIGH}

\* C8 witness: a rule whose rule_id is a quote and whose origin is a
\* backslash followed by n has been described and the text decoded.
C8_Witness ==
    /\ decoded.done
    /\ rule.rule_id = <<"\"">>
    /\ rule.origin = <<"\\", "n">>

====
